---- MODULE Spec2Model ----
(***************************************************************************)
(* State-machine model of record.py: the BLE scan for an Amua device, the  *)
(* connection, the interactive command loop (start_stream / stop_stream /  *)
(* start_record / stop_record / save_record / exit), the notification      *)
(* callback that decodes audio packets, and the end-of-session export.     *)
(*                                                                         *)
(* main() is one coroutine on a single asyncio event loop; pc is its       *)
(* position.  Callbacks (detection_callback, notification_handler) and the *)
(* passage of time interleave with it only where it is suspended in an     *)
(* await (AtAwait).  Everything between two awaits is run without          *)
(* interleaving.                                                           *)
(***************************************************************************)
EXTENDS Integers, Sequences, FiniteSets, TLC

\* ------------------------------------------------------------------ bounds
\* The clock runs 0..MaxTime seconds after the connection is up.
MaxTime == 2
\* Notifications are delivered until this many packets have been appended.
MaxPackets == 2

\* --------------------------------------------------------- program constants
GuardSeconds == 2          \* notification_handler: "< 2"
ScanTimeout == 10          \* wait_for(..., timeout=10.0)
SamplesPerPacket == 121    \* '<121h'
PacketEnd == 243           \* data[1:243]
SAMPLE_RATE == 32000

\* Python's None and an optional value: a sequence of length 0 or 1.
None == <<>>
Some(x) == <<x>>

\* DEVICES, as short names for the two allow-listed addresses.
DEVICES == {"D5:91:CC:7A:AC:E4", "E4:02:D2:DA:A5:29"}

\* The marker "Amua" as a sequence of characters.
Marker == <<"A", "m", "u", "a">>

\* Python's `sub in s` on strings, strings being sequences of characters.
Contains(s, sub) ==
    \E i \in 0..(Len(s) - Len(sub)) : SubSeq(s, i + 1, i + Len(sub)) = sub

\* Advertisements the scanner may report: (name, address) of a device.
\* name is None when the advertisement carries no name.
Adverts ==
    { [name |-> Some(<<"A", "m", "u", "a", "-", "X">>), address |-> "D5:91:CC:7A:AC:E4"],
      [name |-> Some(<<"M", "y", "A", "m", "u", "a">>), address |-> "E4:02:D2:DA:A5:29"],
      [name |-> Some(<<"A", "m", "u", "a", "-", "Z">>), address |-> "AA:BB:CC:DD:EE:FF"],
      [name |-> Some(<<"a", "m", "u", "a">>),           address |-> "D5:91:CC:7A:AC:E4"],
      [name |-> Some(<<>>),                             address |-> "E4:02:D2:DA:A5:29"],
      [name |-> None,                                   address |-> "D5:91:CC:7A:AC:E4"] }

\* The condition of detection_callback:
\*   d.name and "Amua" in d.name and d.address in DEVICES
Matches(d) ==
    /\ d.name # None
    /\ d.name[1] # <<>>
    /\ Contains(d.name[1], Marker)
    /\ d.address \in DEVICES

\* ------------------------------------------------------------ packet bytes
\* A notification payload is a sequence of bytes.  PacketOf(len, seed) is a
\* concrete payload of len bytes; different seeds give different samples.
PacketOf(len, seed) == [i \in 1..len |-> (seed * i + (i \div 7)) % 256]

\* Payloads the peripheral (or a faulty link) may deliver: well-formed ones of
\* 243 and 244 bytes, and short ones of 242, 1 and 0 bytes.
Packets ==
    { PacketOf(243, 3), PacketOf(244, 77), PacketOf(242, 3), PacketOf(1, 77),
      PacketOf(0, 0) }

\* Python's data[a:b] for 0 <= a <= b.
Slice(data, a, b) ==
    SubSeq(data, a + 1, IF b < Len(data) THEN b ELSE Len(data))

\* A two-byte little-endian value as unsigned ('<H') and as signed ('<h').
U16(lo, hi) == lo + 256 * hi
I16(lo, hi) == IF U16(lo, hi) >= 32768 THEN U16(lo, hi) - 65536 ELSE U16(lo, hi)

\* struct.unpack('<H', b) and struct.unpack('<121h', b) raise struct.error
\* unless b has exactly the size of the format.
UnpackHOk(b) == Len(b) = 2
Unpack121hOk(b) == Len(b) = 2 * SamplesPerPacket
Unpack121h(b) == [k \in 1..SamplesPerPacket |-> I16(b[2 * k - 1], b[2 * k])]

\* struct.pack('<Kh', *samples): two little-endian bytes per sample.
PackH(samples) ==
    [i \in 1..(2 * Len(samples)) |->
        LET v == samples[(i + 1) \div 2]
            u == IF v < 0 THEN v + 65536 ELSE v
        IN  IF i % 2 = 1 THEN u % 256 ELSE u \div 256]

\* ----------------------------------------------------- notification_handler
\* (Variant for C1: the callback without the 2-second guard.)
HandlerOutcome_NoGuard(data, st, t) ==
    IF st.start_time = None THEN "TypeError"
    ELSE IF Len(Slice(data, 0, 2)) # 2 THEN "struct.error"
    ELSE IF Len(Slice(data, 1, PacketEnd)) # 2 * SamplesPerPacket THEN "struct.error"
    ELSE "appended"

\* What one call of the callback does, given the payload, the state
\* dictionary and the current time: "TypeError" (start_time is None, the
\* subtraction raises), "skipped" (the 2-second guard), "struct.error" (a
\* payload too short for the two unpack calls), or "appended".
HandlerOutcome(data, st, t) ==
    IF st.start_time = None THEN "TypeError"
    ELSE IF t - st.start_time[1] < GuardSeconds THEN "skipped"
    ELSE IF ~UnpackHOk(Slice(data, 0, 2)) THEN "struct.error"
    ELSE IF ~Unpack121hOk(Slice(data, 1, PacketEnd)) THEN "struct.error"
    ELSE "appended"

\* (Variant for C11: a callback that extends the recording list whether or
\* not is_recording is set.)
notification_handler_always(data, st, t) ==
    IF HandlerOutcome(data, st, t) = "appended"
    THEN LET samples == Unpack121h(Slice(data, 1, PacketEnd))
         IN  [st EXCEPT !.audio_samples = @ \o samples,
                        !.recording = @ \o samples]
    ELSE st

\* (Variant for C4: a callback that extends the buffers sample by sample, so
\* that a short payload leaves the samples decoded before the error.)
notification_handler_partial(data, st, t) ==
    IF HandlerOutcome(data, st, t) \in {"appended", "struct.error"}
    THEN LET b == Slice(data, 1, PacketEnd)
             samples == [k \in 1..(Len(b) \div 2) |-> I16(b[2 * k - 1], b[2 * k])]
         IN  [st EXCEPT !.audio_samples = @ \o samples,
                        !.recording = IF st.is_recording THEN @ \o samples ELSE @]
    ELSE st

\* The state dictionary after the callback has run (an exception leaves it
\* as it was: it is raised before the first extend).
notification_handler(data, st, t) ==
    IF HandlerOutcome(data, st, t) = "appended"
    THEN LET samples == Unpack121h(Slice(data, 1, PacketEnd))
         IN  [st EXCEPT !.audio_samples = @ \o samples,
                        !.recording = IF st.is_recording THEN @ \o samples ELSE @]
    ELSE st

\* ------------------------------------------------- recording and WAV output
\* (Variant for C9: start_recording without the reset.)
start_recording_keep(st) == [st EXCEPT !.is_recording = TRUE]

\* start_recording(state): resets the recording list, returns True.
start_recording(st) == [st EXCEPT !.recording = <<>>, !.is_recording = TRUE]

\* (Variant for C16: a stop_recording that empties the list.)
stop_recording_clear(st) == [st EXCEPT !.is_recording = FALSE, !.recording = <<>>]

\* stop_recording(recording): only logs, returns False.
stop_recording(st) == [st EXCEPT !.is_recording = FALSE]

\* (Variant for C12: the frames packed high byte first, '>h'.)
save_recording_bigendian(recording) ==
    [nchannels |-> 1, sampwidth |-> 2, framerate |-> SAMPLE_RATE,
     frames |-> [i \in 1..(2 * Len(recording)) |->
                   LET v == recording[(i + 1) \div 2]
                       u == IF v < 0 THEN v + 65536 ELSE v
                   IN  IF i % 2 = 1 THEN u \div 256 ELSE u % 256]]

\* save_recording(filename, recording): the WAV file written.
save_recording(recording) ==
    [nchannels |-> 1, sampwidth |-> 2, framerate |-> SAMPLE_RATE,
     frames |-> PackH(recording)]

\* ---------------------------------------------------------------- variables
VARIABLES
    pc,               \* where main() is: an await, or a line between awaits
    state,            \* the state dictionary of main()
    device,           \* main's `device`: None or the advertisement stored
    found_event,      \* the asyncio.Event: is it set
    scanning,         \* has the BleakScanner been started and not yet stopped
    scan_clock,       \* seconds waited in wait_for
    client,           \* None, or the address the BleakClient is connected to
    subscribed,       \* is a notification callback installed on the client
    device_streaming, \* has the peripheral received START and not yet STOP
    now,              \* dt.now(), in seconds since the connection is up
    command,          \* the command line read in this loop iteration
    wav_files,        \* the WAV files written: file name -> None or the file
    hist              \* history of the run, read by the properties only

vars == <<pc, state, device, found_event, scanning, scan_clock, client,
          subscribed, device_streaming, now, command, wav_files, hist>>

\* File names: the one typed at the "Enter filename" prompt and the export.
UserFile == "take.wav"
ExportFile == "recorded_audio.wav"
Filenames == {UserFile, ExportFile}

\* Command lines the user may type: the six commands, and a line that is none
\* of them.
Commands ==
    { "start_stream", "stop_stream", "start_record", "stop_record",
      "save_record", "exit", "start_stream " }

\* The positions at which main() is suspended in an await, so that callbacks
\* run and time passes.
ScanAwaits == {"scanner_start", "wait_for", "scanner_stop", "settle"}
LoopAwaits == {"input", "start_notify", "write_start", "write_stop", "stop_notify"}
AtAwait == pc \in ScanAwaits \cup LoopAwaits \cup {"connect"}

\* The positions after device location has returned control.
AfterLocate ==
    { "check_device", "not_found", "connect", "input", "if_start_stream",
      "start_notify", "write_start", "if_stop_stream", "write_stop",
      "stop_notify", "if_start_record", "if_save_record", "if_exit",
      "disconnect", "after_loop", "finished_empty", "finished", "crashed" }

\* The positions at which the program has ended.
Ended == {"not_found", "finished_empty", "finished", "crashed"}

NoSnap == [audio_len |-> 0, rec_len |-> 0, start_time |-> None]

Init ==
    /\ pc = "scanner_start"
    /\ state = [audio_samples |-> <<>>, recording |-> <<>>,
                is_recording |-> FALSE, is_streaming |-> FALSE,
                start_time |-> None]
    /\ device = None
    /\ found_event = FALSE
    /\ scanning = FALSE
    /\ scan_clock = 0
    /\ client = None
    /\ subscribed = FALSE
    /\ device_streaming = FALSE
    /\ now = 0
    /\ command = ""
    /\ wav_files = [f \in Filenames |-> None]
    /\ hist = [ first_match |-> None,   \* the first advertisement that matched
                timed_out |-> FALSE,    \* did wait_for raise TimeoutError
                settled |-> FALSE,      \* has the sleep after scanner.stop() ended
                connect_to |-> None,    \* the address a connection was attempted to
                last_short |-> FALSE,   \* the latest notification since main() last ran: was it under 243 bytes,
                last_outcome |-> "none",\* and what the callback did with it
                cap_due |-> 0,          \* well-formed payloads delivered >= 2 s after start_time
                rec_due |-> 0,          \* ... of them while recording, since the last start_recording
                rec_mark |-> 0,         \* len(audio_samples) at the last start_recording
                iter_discarded |-> FALSE, \* did start_recording discard samples in this iteration
                iter_gatt |-> <<>>,     \* GATT operations issued in this loop iteration
                iter_acts |-> {},       \* actions triggered in this loop iteration
                iter_streaming |-> FALSE, \* is_streaming when the command was read
                ss_result |-> "none",   \* how the latest start_stream call ended
                ss_snap |-> NoSnap,     \* the state when that call began
                stop_failed |-> FALSE ] \* did a GATT operation of stop_stream raise

\* main() runs again after an await: the history of the latest notification
\* starts afresh.
Resumed(h) == [h EXCEPT !.last_short = FALSE, !.last_outcome = "none"]

Snap(st) ==
    [audio_len |-> Len(st.audio_samples), rec_len |-> Len(st.recording),
     start_time |-> st.start_time]

\* ------------------------------------------------------------ device location
\* await scanner.start()
ScannerStart ==
    /\ pc = "scanner_start"
    /\ scanning' = TRUE
    /\ pc' = "wait_for"
    /\ UNCHANGED <<state, device, found_event, scan_clock, client, subscribed,
                   device_streaming, now, command, wav_files, hist>>

\* detection_callback(d, advertisement_data), called by the running scanner
\* while main() is suspended.
detection_callback(d) ==
    /\ scanning
    /\ AtAwait
    /\ IF Matches(d)
       THEN /\ device' = Some(d)
            /\ found_event' = TRUE
            /\ hist' = [hist EXCEPT !.first_match =
                            IF @ = None THEN Some(d) ELSE @]
       ELSE UNCHANGED <<device, found_event, hist>>
    /\ UNCHANGED <<pc, state, scanning, scan_clock, client, subscribed,
                   device_streaming, now, command, wav_files>>

Detection == \E d \in Adverts : detection_callback(d)

\* One second passes in wait_for(found_event.wait(), timeout=10.0).  The
\* timer of wait_for is gone (0) once wait_for has returned or raised.
ScanTick ==
    /\ pc = "wait_for"
    /\ scan_clock < ScanTimeout
    /\ scan_clock' = scan_clock + 1
    /\ UNCHANGED <<pc, state, device, found_event, scanning, client, subscribed,
                   device_streaming, now, command, wav_files, hist>>

\* wait_for returns: the event is set.  Control enters the finally block.
WaitForFound ==
    /\ pc = "wait_for"
    /\ found_event
    /\ pc' = "scanner_stop"
    /\ scan_clock' = 0
    /\ UNCHANGED <<state, device, found_event, scanning, client,
                   subscribed, device_streaming, now, command, wav_files, hist>>

\* (Variant for C8: the stop and the settle delay not in a finally block, so
\* that the timeout path skips them.)
WaitForTimeout_NoFinally ==
    /\ pc = "wait_for"
    /\ ~found_event
    /\ scan_clock = ScanTimeout
    /\ pc' = "check_device"
    /\ scan_clock' = 0
    /\ hist' = [hist EXCEPT !.timed_out = TRUE]
    /\ UNCHANGED <<state, device, found_event, scanning, client,
                   subscribed, device_streaming, now, command, wav_files>>

\* wait_for raises TimeoutError after 10 s; it is caught and logged ("Scan
\* timeout - device not found").  Control enters the finally block.
WaitForTimeout ==
    /\ pc = "wait_for"
    /\ ~found_event
    /\ scan_clock = ScanTimeout
    /\ pc' = "scanner_stop"
    /\ scan_clock' = 0
    /\ hist' = [hist EXCEPT !.timed_out = TRUE]
    /\ UNCHANGED <<state, device, found_event, scanning, client,
                   subscribed, device_streaming, now, command, wav_files>>

\* finally: await scanner.stop() completes.
ScannerStop ==
    /\ pc = "scanner_stop"
    /\ scanning' = FALSE
    /\ pc' = "settle"
    /\ UNCHANGED <<state, device, found_event, scan_clock, client, subscribed,
                   device_streaming, now, command, wav_files, hist>>

\* finally: await asyncio.sleep(1.0) completes.
SettleSleep ==
    /\ pc = "settle"
    /\ pc' = "check_device"
    /\ hist' = [hist EXCEPT !.settled = TRUE]
    /\ UNCHANGED <<state, device, found_event, scanning, scan_clock, client,
                   subscribed, device_streaming, now, command, wav_files>>

\* if device is None: log "Device not found" and return.
CheckDevice ==
    /\ pc = "check_device"
    /\ pc' = IF device = None THEN "not_found" ELSE "connect"
    /\ hist' = IF device = None THEN hist
               ELSE [hist EXCEPT !.connect_to = Some(device[1].address)]
    /\ UNCHANGED <<state, device, found_event, scanning, scan_clock, client,
                   subscribed, device_streaming, now, command, wav_files>>

\* async with BleakClient(device.address, timeout=30.0) as client: the
\* connection is made, or it raises and main() ends with the exception.
\* (The history of the scan is about device location only; it is dropped
\* once the session is connected.)
Connect ==
    /\ pc = "connect"
    /\ \/ /\ client' = Some(device[1].address)
          /\ pc' = "input"
          /\ hist' = [hist EXCEPT !.first_match = None, !.timed_out = FALSE]
       \/ /\ client' = None
          /\ pc' = "crashed"
          /\ UNCHANGED hist
    /\ UNCHANGED <<state, device, found_event, scanning, scan_clock, subscribed,
                   device_streaming, now, command, wav_files>>

\* -------------------------------------------------------------- command loop
\* command = await asyncio.to_thread(input, ...): a line has been read.
ReadCommand(c) ==
    /\ pc = "input"
    /\ command' = c
    /\ pc' = "if_start_stream"
    /\ hist' = [Resumed(hist) EXCEPT !.iter_gatt = <<>>, !.iter_acts = {},
                                     !.iter_streaming = state.is_streaming]
    /\ UNCHANGED <<state, device, found_event, scanning, scan_clock, client,
                   subscribed, device_streaming, now, wav_files>>

Read == \E c \in Commands : ReadCommand(c)

\* (Variant for C13: a start_stream that empties the capture list.)
start_stream_ok_clear(st, t) ==
    [st EXCEPT !.start_time = Some(t), !.is_streaming = TRUE,
               !.audio_samples = <<>>]

\* What start_stream leaves in state['is_streaming'] and state['start_time']
\* when both GATT operations succeeded at time t (it returns True) ...
start_stream_ok(st, t) == [st EXCEPT !.start_time = Some(t), !.is_streaming = TRUE]

\* ... and when one of them raised (it returns False).
start_stream_failed(st) == [st EXCEPT !.is_streaming = FALSE]

\* if command == "start_stream" and not state['is_streaming']:
\*     state['is_streaming'] = await start_stream(client, state)
\* start_stream begins with await client.start_notify(...).
IfStartStream ==
    /\ pc = "if_start_stream"
    /\ IF command = "start_stream" /\ ~state.is_streaming
       THEN /\ pc' = "start_notify"
            /\ hist' = [hist EXCEPT !.iter_acts = @ \cup {"start_stream"},
                                    !.iter_gatt = Append(@, "start_notify"),
                                    !.ss_result = "running",
                                    !.ss_snap = Snap(state)]
       ELSE /\ pc' = "if_stop_stream"
            /\ UNCHANGED hist
    /\ UNCHANGED <<state, device, found_event, scanning, scan_clock, client,
                   subscribed, device_streaming, now, command, wav_files>>

\* start_notify returns: the callback is installed.  start_stream goes on to
\* await client.write_gatt_char(AUDIO_CHAR_UUID, bytes([0x01])).
StartNotifyOk ==
    /\ pc = "start_notify"
    /\ subscribed' = TRUE
    /\ pc' = "write_start"
    /\ hist' = [Resumed(hist) EXCEPT !.iter_gatt = Append(@, "write_start")]
    /\ UNCHANGED <<state, device, found_event, scanning, scan_clock, client,
                   device_streaming, now, command, wav_files>>

\* start_notify raises: start_stream logs and returns False.
StartNotifyFail ==
    /\ pc = "start_notify"
    /\ state' = start_stream_failed(state)
    /\ pc' = "if_stop_stream"
    /\ hist' = [Resumed(hist) EXCEPT !.ss_result = "failed"]
    /\ UNCHANGED <<device, found_event, scanning, scan_clock, client, subscribed,
                   device_streaming, now, command, wav_files>>

\* The START byte reaches the peripheral, which begins to notify.  The write
\* has not returned yet.
DeviceGetsStart ==
    /\ pc = "write_start"
    /\ ~device_streaming
    /\ device_streaming' = TRUE
    /\ UNCHANGED <<pc, state, device, found_event, scanning, scan_clock, client,
                   subscribed, now, command, wav_files, hist>>

\* The write returns: state['start_time'] = dt.now(); return True.
StartWriteOk ==
    /\ pc = "write_start"
    /\ device_streaming
    /\ state' = start_stream_ok(state, now)
    /\ pc' = "if_stop_stream"
    /\ hist' = [Resumed(hist) EXCEPT !.ss_result = "ok"]
    /\ UNCHANGED <<device, found_event, scanning, scan_clock, client, subscribed,
                   device_streaming, now, command, wav_files>>

\* The write raises (whether or not the byte reached the peripheral):
\* start_stream logs and returns False.  The callback stays installed.
StartWriteFail ==
    /\ pc = "write_start"
    /\ state' = start_stream_failed(state)
    /\ pc' = "if_stop_stream"
    /\ hist' = [Resumed(hist) EXCEPT !.ss_result = "failed"]
    /\ UNCHANGED <<device, found_event, scanning, scan_clock, client, subscribed,
                   device_streaming, now, command, wav_files>>

\* if command == "stop_stream" and state['is_streaming']:
\*     state['is_streaming'] = await stop_stream(client, ...)
\* elif command == "stop_record" and state['is_recording']:
\*     state['is_recording'] = await stop_recording(state['recording'])
\* stop_stream, called with is_streaming true, begins with
\* await client.write_gatt_char(AUDIO_CHAR_UUID, bytes([0x00])).
IfStopStream ==
    /\ pc = "if_stop_stream"
    /\ IF command = "stop_stream" /\ state.is_streaming
       THEN /\ pc' = "write_stop"
            /\ hist' = [hist EXCEPT !.iter_acts = @ \cup {"stop_stream"},
                                    !.iter_gatt = Append(@, "write_stop")]
            /\ UNCHANGED state
       ELSE IF command = "stop_record" /\ state.is_recording
       THEN /\ state' = stop_recording(state)
            /\ pc' = "if_start_record"
            /\ hist' = [hist EXCEPT !.iter_acts = @ \cup {"stop_record"}]
       ELSE /\ pc' = "if_start_record"
            /\ UNCHANGED <<state, hist>>
    /\ UNCHANGED <<device, found_event, scanning, scan_clock, client, subscribed,
                   device_streaming, now, command, wav_files>>

\* The STOP write returns.  stop_stream goes on to await client.stop_notify.
StopWriteOk ==
    /\ pc = "write_stop"
    /\ device_streaming' = FALSE
    /\ pc' = "stop_notify"
    /\ hist' = [Resumed(hist) EXCEPT !.iter_gatt = Append(@, "stop_notify")]
    /\ UNCHANGED <<state, device, found_event, scanning, scan_clock, client,
                   subscribed, now, command, wav_files>>

\* An exception raised inside stop_stream is caught nowhere: it leaves
\* stop_stream, the while loop and the async with block (which disconnects),
\* and main() ends with it.  The assignment to state['is_streaming'] is not
\* reached.
Raise ==
    /\ pc' = "crashed"
    /\ client' = None
    /\ subscribed' = FALSE
    /\ hist' = [Resumed(hist) EXCEPT !.stop_failed = TRUE]
    /\ UNCHANGED <<state, device, found_event, scanning, scan_clock, now,
                   command, wav_files>>

\* The STOP write raises (whether or not the byte reached the peripheral).
StopWriteFail ==
    /\ pc = "write_stop"
    /\ device_streaming' \in {device_streaming, FALSE}
    /\ Raise

\* (Variant for C17: a stop_stream that also ends the recording.)
stop_stream_stops_recording(st) ==
    [st EXCEPT !.is_streaming = FALSE, !.is_recording = FALSE]

\* What stop_stream leaves in state['is_streaming']: it returns False.
stop_stream(st) == [st EXCEPT !.is_streaming = FALSE]

\* stop_notify returns: stop_stream logs and returns False.  Called for the
\* exit command, the loop breaks.
StopNotifyOk ==
    /\ pc = "stop_notify"
    /\ subscribed' = FALSE
    /\ state' = stop_stream(state)
    /\ pc' = IF command = "exit" THEN "disconnect" ELSE "if_start_record"
    /\ hist' = Resumed(hist)
    /\ UNCHANGED <<device, found_event, scanning, scan_clock, client,
                   device_streaming, now, command, wav_files>>

\* stop_notify raises.
StopNotifyFail ==
    /\ pc = "stop_notify"
    /\ UNCHANGED device_streaming
    /\ Raise

\* (Variant for C10: start_record dispatched without its precondition.)
IfStartRecord_NoPre ==
    /\ pc = "if_start_record"
    /\ IF command = "start_record"
       THEN /\ state' = start_recording(state)
            /\ hist' = [hist EXCEPT !.iter_acts = @ \cup {"start_record"},
                                    !.rec_due = 0,
                                    !.rec_mark = Len(state.audio_samples),
                                    !.iter_discarded = (state.recording # <<>>)]
       ELSE UNCHANGED <<state, hist>>
    /\ pc' = "if_save_record"
    /\ UNCHANGED <<device, found_event, scanning, scan_clock, client, subscribed,
                   device_streaming, now, command, wav_files>>

\* if command == "start_record" and not state['is_recording']:
\*     state['is_recording'] = await start_recording(state)
IfStartRecord ==
    /\ pc = "if_start_record"
    /\ IF command = "start_record" /\ ~state.is_recording
       THEN /\ state' = start_recording(state)
            /\ hist' = [hist EXCEPT !.iter_acts = @ \cup {"start_record"},
                                    !.rec_due = 0,
                                    !.rec_mark = Len(state.audio_samples),
                                    !.iter_discarded = (state.recording # <<>>)]
       ELSE UNCHANGED <<state, hist>>
    /\ pc' = "if_save_record"
    /\ UNCHANGED <<device, found_event, scanning, scan_clock, client, subscribed,
                   device_streaming, now, command, wav_files>>

\* if command == "save_record":
\*     filename = input("Enter filename: ")
\*     await save_recording(filename, state['recording'])
IfSaveRecord ==
    /\ pc = "if_save_record"
    /\ IF command = "save_record"
       THEN /\ \E filename \in {UserFile} :
                 wav_files' = [wav_files EXCEPT
                                  ![filename] = Some(save_recording(state.recording))]
            /\ hist' = [hist EXCEPT !.iter_acts = @ \cup {"save_record"}]
       ELSE UNCHANGED <<wav_files, hist>>
    /\ pc' = "if_exit"
    /\ UNCHANGED <<state, device, found_event, scanning, scan_clock, client,
                   subscribed, device_streaming, now, command>>

\* if command == "exit":
\*     state['is_streaming'] = await stop_stream(client, ...)
\*     break
\* stop_stream returns False at once when is_streaming is false.  Any other
\* command: back to the top of the loop (the line read is not used again).
IfExit ==
    /\ pc = "if_exit"
    /\ IF command = "exit"
       THEN IF state.is_streaming
            THEN /\ pc' = "write_stop"
                 /\ hist' = [hist EXCEPT !.iter_acts = @ \cup {"exit"},
                                         !.iter_gatt = Append(@, "write_stop")]
                 /\ UNCHANGED <<state, command>>
            ELSE /\ state' = stop_stream(state)
                 /\ pc' = "disconnect"
                 /\ hist' = [hist EXCEPT !.iter_acts = @ \cup {"exit"}]
                 /\ UNCHANGED command
       ELSE /\ pc' = "input"
            /\ command' = ""
            /\ hist' = [hist EXCEPT !.iter_gatt = <<>>, !.iter_acts = {},
                                    !.iter_streaming = FALSE,
                                    !.iter_discarded = FALSE,
                                    !.ss_result = "none", !.ss_snap = NoSnap]
            /\ UNCHANGED state
    /\ UNCHANGED <<device, found_event, scanning, scan_clock, client, subscribed,
                   device_streaming, now, wav_files>>

\* The async with block is left after the break: the client disconnects.
Disconnect ==
    /\ pc = "disconnect"
    /\ client' = None
    /\ subscribed' = FALSE
    /\ pc' = "after_loop"
    /\ UNCHANGED <<state, device, found_event, scanning, scan_clock,
                   device_streaming, now, command, wav_files, hist>>

\* if len(state['audio_samples']) == 0: return
\* await save_recording('recorded_audio.wav', state['audio_samples'])
AfterLoop ==
    /\ pc = "after_loop"
    /\ IF Len(state.audio_samples) = 0
       THEN /\ pc' = "finished_empty"
            /\ UNCHANGED wav_files
       ELSE /\ pc' = "finished"
            /\ wav_files' = [wav_files EXCEPT
                                ![ExportFile] = Some(save_recording(state.audio_samples))]
    /\ UNCHANGED <<state, device, found_event, scanning, scan_clock, client,
                   subscribed, device_streaming, now, command, hist>>

\* ------------------------------------------------- notifications and time
\* Is the payload well-formed, and is it delivered at least 2 s after the
\* start time the state holds (Due), or less than 2 s after it (Early).
WellFormed(data) == Len(data) >= PacketEnd
Due(data) ==
    /\ WellFormed(data)
    /\ state.start_time # None
    /\ now - state.start_time[1] >= GuardSeconds
Early == state.start_time # None /\ now - state.start_time[1] < GuardSeconds

\* The transport delivers one notification: the lambda installed by
\* start_notify calls notification_handler(sender, data, state).
Notify(data) ==
    /\ pc \in LoopAwaits
    /\ subscribed
    /\ device_streaming
    /\ Len(state.audio_samples) < MaxPackets * SamplesPerPacket
    /\ state' = notification_handler(data, state, now)
    /\ hist' = [hist EXCEPT
                  !.last_short = ~WellFormed(data),
                  !.last_outcome = HandlerOutcome(data, state, now),
                  !.cap_due = IF Due(data) THEN @ + 1 ELSE @,
                  !.rec_due = IF Due(data) /\ state.is_recording THEN @ + 1 ELSE @]
    /\ UNCHANGED <<pc, device, found_event, scanning, scan_clock, client,
                   subscribed, device_streaming, now, command, wav_files>>

Notification == \E data \in Packets : Notify(data)

\* One second passes while main() is suspended in the loop.
Tick ==
    /\ pc \in LoopAwaits
    /\ now < MaxTime
    /\ now' = now + 1
    /\ UNCHANGED <<pc, state, device, found_event, scanning, scan_clock, client,
                   subscribed, device_streaming, command, wav_files, hist>>

\* ------------------------------------------------------------ specification
Next ==
    \/ ScannerStart \/ Detection \/ ScanTick \/ WaitForFound \/ WaitForTimeout
    \/ ScannerStop \/ SettleSleep \/ CheckDevice \/ Connect
    \/ Read \/ IfStartStream \/ StartNotifyOk \/ StartNotifyFail
    \/ DeviceGetsStart \/ StartWriteOk \/ StartWriteFail
    \/ IfStopStream \/ StopWriteOk \/ StopWriteFail \/ StopNotifyOk
    \/ StopNotifyFail \/ IfStartRecord \/ IfSaveRecord \/ IfExit
    \/ Disconnect \/ AfterLoop \/ Notification \/ Tick

Spec == Init /\ [][Next]_vars

\* ================================================================== claims

C2_StopAlwaysNotStreaming ==
    ( /\ command = "stop_stream"
      /\ "stop_stream" \in hist.iter_acts
      /\ pc \notin {"write_stop", "stop_notify"} )
    => (~state.is_streaming /\ pc \notin Ended)

\* C3 (as claimed): when start_stream has returned False, is_streaming is
\* false, and start_time and the two lists are as they were when it was
\* called.
C3_FailedStartUnchanged ==
    hist.ss_result = "failed" =>
        /\ ~state.is_streaming
        /\ state.start_time = hist.ss_snap.start_time
        /\ Len(state.audio_samples) = hist.ss_snap.audio_len
        /\ Len(state.recording) = hist.ss_snap.rec_len

\* A notification with a payload under 243 bytes is delivered in this step.
ShortNotifyStep == \E data \in Packets : ~WellFormed(data) /\ Notify(data)

\* A well-formed payload is delivered at least 2 s after the start time.
DueNotifyStep == \E data \in Packets : Due(data) /\ Notify(data)

\* C4 (as claimed): the callback ends every notification with a payload under
\* 243 bytes in a decode error, and such a payload appends nothing.
C4_ShortAlwaysDecodeError ==
    hist.last_short =>
        /\ hist.last_outcome = "struct.error"
        /\ Len(state.audio_samples) = SamplesPerPacket * hist.cap_due

ShortDropped ==
    /\ state' = state
    /\ subscribed' = subscribed
    /\ pc' = pc
    /\ hist'.last_outcome =
         IF state.start_time = None THEN "TypeError"
         ELSE IF Early THEN "skipped" ELSE "struct.error"

DueAppended ==
    /\ Len(state'.audio_samples) = Len(state.audio_samples) + SamplesPerPacket
    /\ state'.is_streaming = state.is_streaming

\* C4 (amended): a notification with a payload under 243 bytes leaves the
\* state dictionary (both lists, is_streaming) and the subscription as they
\* were; it ends in a decode error exactly when start_time is set and at
\* least 2 seconds old (earlier it is skipped by the guard, and without a
\* start_time the subtraction raises); and a well-formed payload delivered at
\* least 2 seconds after the start time is appended whatever came before it.
C4_ShortPacketDropped ==
    /\ [][ShortNotifyStep => ShortDropped]_vars
    /\ [][DueNotifyStep => DueAppended]_vars

\* C4 witness: while streaming and recording with samples in both lists, a
\* short payload has just ended in a decode error.
C4_Witness ==
    /\ hist.last_short
    /\ hist.last_outcome = "struct.error"
    /\ state.is_streaming
    /\ state.is_recording
    /\ Len(state.recording) = SamplesPerPacket
    /\ Len(state.audio_samples) = SamplesPerPacket

\* C5 (as claimed): once the loop has ended on an exit command, is_streaming
\* is false, and the GATT operations issued for the command are the STOP
\* write and the unsubscribe if it was read while streaming, and none if not.
C5_ExitForcesStop ==
    ( /\ command = "exit"
      /\ "exit" \in hist.iter_acts
      /\ pc \notin {"write_stop", "stop_notify"} )
    => /\ ~state.is_streaming
       /\ hist.iter_gatt = IF hist.iter_streaming
                           THEN <<"write_stop", "stop_notify">> ELSE <<>>

\* C6 (as claimed): the device stored always matches (name and address), and
\* the device that location ends with is the first one that matched.
C6_FirstMatchKept ==
    /\ device # None => Matches(device[1])
    /\ pc \in {"check_device", "connect"} => device = hist.first_match

\* C7 (as claimed): when wait_for has timed out, no connection is attempted.
C7_TimeoutNoConnection ==
    hist.timed_out => (hist.connect_to = None /\ pc # "connect")

\* C8: after device location (found or timed out) the scan is stopped and the
\* settle delay after the stop has elapsed: the device check, the return and
\* the connection attempt happen only then.
C8_StoppedAndSettled ==
    pc \in AfterLocate => (~scanning /\ hist.settled)

\* C8 witness: the timeout path has ended in "not found", stopped and settled.
C8_Witness ==
    /\ pc = "not_found"
    /\ hist.timed_out
    /\ hist.settled
    /\ ~scanning

\* C9: start_recording, called in any state (recording or not), leaves the
\* recording list empty; and the recording list always holds only samples
\* appended after the latest start_recording: it is the run of the capture
\* list that begins where the capture list ended at that call.
C9_StartRecordingResets ==
    /\ start_recording(state).recording = <<>>
    /\ hist.rec_mark + Len(state.recording) <= Len(state.audio_samples)
    /\ state.recording =
           SubSeq(state.audio_samples, hist.rec_mark + 1,
                  hist.rec_mark + Len(state.recording))

\* C9 witness: start_recording has just discarded a non-empty recording.
C9_Witness ==
    /\ pc = "if_save_record"
    /\ hist.iter_discarded
    /\ state.is_recording
    /\ state.recording = <<>>
    /\ state.audio_samples # <<>>

\* The precondition of each command, and the position of its `if`.
Pre(c, st) ==
    CASE c = "start_stream" -> ~st.is_streaming
      [] c = "stop_stream" -> st.is_streaming
      [] c = "stop_record" -> st.is_recording
      [] c = "start_record" -> ~st.is_recording
      [] c = "save_record" -> TRUE
      [] c = "exit" -> TRUE
      [] OTHER -> FALSE

IfOf(c) ==
    CASE c = "start_stream" -> "if_start_stream"
      [] c = "stop_stream" -> "if_stop_stream"
      [] c = "stop_record" -> "if_stop_stream"
      [] c = "start_record" -> "if_start_record"
      [] c = "save_record" -> "if_save_record"
      [] c = "exit" -> "if_exit"
      [] OTHER -> "none"

IfPcs ==
    {"if_start_stream", "if_stop_stream", "if_start_record", "if_save_record",
     "if_exit"}

AtIf == pc \in IfPcs

\* One `if` of the dispatch: it triggers the action of the command read when
\* it is that command's `if` and the precondition holds, and does nothing
\* otherwise.
IfStepAsMapped ==
    IF pc = IfOf(command) /\ Pre(command, state)
    THEN hist'.iter_acts = {command}
    ELSE /\ state' = state
         /\ subscribed' = subscribed
         /\ device_streaming' = device_streaming
         /\ wav_files' = wav_files
         /\ hist'.iter_gatt \in {hist.iter_gatt, <<>>}
         /\ hist'.iter_acts \subseteq hist.iter_acts

\* C10: in one loop iteration at most one action is triggered, the one of
\* the command read, at that command's `if` and only if its precondition
\* holds there; GATT operations are issued only by a triggered start_stream,
\* stop_stream or exit; and every other `if` of the iteration (all of them
\* for an unrecognized command or a failed precondition) leaves the state
\* dictionary, the subscription, the peripheral and the files as they were.
C10_OneMappedAction ==
    /\ [](/\ hist.iter_acts \subseteq {command}
          /\ (hist.iter_gatt # <<>> =>
                hist.iter_acts \cap {"start_stream", "stop_stream", "exit"} # {}))
    /\ [][AtIf => IfStepAsMapped]_vars

\* C10 witness: start_record was read while recording (its precondition
\* fails); the iteration has passed its `if` with the recording untouched.
C10_Witness ==
    /\ pc = "if_exit"
    /\ command = "start_record"
    /\ hist.iter_acts = {}
    /\ state.is_recording
    /\ state.recording # <<>>

\* A notification is delivered in this step.
NotifyStep == \E data \in Packets : Notify(data)

\* C11 (as claimed): while streaming with recording inactive, the recording
\* list is empty.
C11_InactiveRecordingEmpty ==
    (state.is_streaming /\ ~state.is_recording) => Len(state.recording) = 0

InactiveNotifyKeeps == ~state.is_recording => state'.recording = state.recording

EmptyStaysEmpty ==
    (~state.is_recording /\ state.recording = <<>> /\ ~state'.is_recording)
        => state'.recording = <<>>

\* C11 (amended): a notification delivered while recording is inactive leaves
\* the recording list as it was, and a recording list that is empty while
\* recording is inactive stays empty for as long as recording stays inactive.
C11_InactiveRecordingKept ==
    /\ [][NotifyStep => InactiveNotifyKeeps]_vars
    /\ [][EmptyStaysEmpty]_vars

\* C11 witness: streaming, recording inactive, packets appended to the capture
\* list and the recording list still empty.
C11_Witness ==
    /\ state.is_streaming
    /\ ~state.is_recording
    /\ Len(state.audio_samples) = 2 * SamplesPerPacket
    /\ state.recording = <<>>
    /\ hist.last_outcome = "appended"

\* The samples a WAV payload holds, read back as 16-bit little-endian values.
FrameSamples(frames) ==
    [k \in 1..(Len(frames) \div 2) |-> I16(frames[2 * k - 1], frames[2 * k])]

\* The file f holds exactly the samples of buf, in order, as mono 16-bit PCM
\* at 32000 Hz.
HoldsExactly(f, buf) ==
    /\ f # None
    /\ f[1].nchannels = 1
    /\ f[1].sampwidth = 2
    /\ f[1].framerate = 32000
    /\ Len(f[1].frames) = 2 * Len(buf)
    /\ FrameSamples(f[1].frames) = buf

\* The `if` of a save_record command is run in this step.
SaveStep == pc = "if_save_record" /\ command = "save_record"

SaveWritesSnapshot ==
    /\ HoldsExactly(wav_files'[UserFile], state.recording)
    /\ state' = state
    /\ subscribed' = subscribed
    /\ device_streaming' = device_streaming
    /\ now' = now

\* C12: a save_record command, in whatever state it is read, writes a file
\* that holds exactly the samples the recording list holds at that moment, in
\* order, and leaves the state dictionary (both lists, is_recording,
\* is_streaming, start_time) as it was; no notification runs between the
\* prompt, the write and the end of the `if`.
C12_SaveSnapshot ==
    /\ [][SaveStep => SaveWritesSnapshot]_vars
    /\ []((pc = "if_exit" /\ command = "save_record") =>
            /\ "save_record" \in hist.iter_acts
            /\ HoldsExactly(wav_files[UserFile], state.recording))

\* C12 witness: save_record has been run while streaming and recording, with
\* two packets in the recording list.
C12_Witness ==
    /\ pc = "if_exit"
    /\ command = "save_record"
    /\ state.is_recording
    /\ state.is_streaming
    /\ Len(state.recording) = 2 * SamplesPerPacket
    /\ wav_files[UserFile] # None

\* a is a prefix of b.
IsPrefix(a, b) == Len(a) <= Len(b) /\ SubSeq(b, 1, Len(a)) = a

\* The 121 samples of a well-formed payload: the little-endian 16-bit values
\* at bytes 1..242 (counted from 0), whatever bytes 0..1 (the sequence number)
\* hold.
PacketSamples(data) ==
    [k \in 1..121 |-> I16(data[2 * k], data[2 * k + 1])]

CaptureOnlyGrows == IsPrefix(state.audio_samples, state'.audio_samples)

NotifyAppendsPacket ==
    \A data \in Packets :
        Notify(data) =>
            state'.audio_samples =
                IF Due(data) THEN state.audio_samples \o PacketSamples(data)
                ELSE state.audio_samples

\* C13: no step shortens or rewrites the capture list; a notification
\* accepted (well-formed, at least 2 s after the start time) appends exactly
\* the 121 samples of its payload at the end, whatever its sequence number,
\* and any other notification appends nothing; so the capture list holds 121
\* samples per accepted packet.
C13_CaptureAppendOnly ==
    /\ [][CaptureOnlyGrows]_vars
    /\ [][NotifyAppendsPacket]_vars
    /\ [](Len(state.audio_samples) = SamplesPerPacket * hist.cap_due)

\* C13 witness: after stop_stream the capture list holds the 242 samples of
\* two accepted packets, the same payload (same sequence number) twice.
C13_Witness ==
    /\ pc = "input"
    /\ ~state.is_streaming
    /\ hist.cap_due = 2
    /\ Len(state.audio_samples) = 2 * SamplesPerPacket
    /\ SubSeq(state.audio_samples, 1, SamplesPerPacket) =
           SubSeq(state.audio_samples, SamplesPerPacket + 1, 2 * SamplesPerPacket)

\* C14 (as claimed): whenever the callback has just appended samples,
\* is_streaming is true; and once start_stream has returned False, or
\* stop_stream has returned, no callback is installed any more.
C14_AppendsOnlyWhileStreaming ==
    /\ hist.last_outcome = "appended" => state.is_streaming
    /\ hist.ss_result = "failed" => ~subscribed
    /\ ( /\ "stop_stream" \in hist.iter_acts
         /\ pc \notin {"write_stop", "stop_notify", "crashed"} ) => ~subscribed

\* C15 (as claimed): whenever the callback has just run, start_time is set
\* and is that of the session in progress: is_streaming is true, start_time
\* having been assigned together with it when the session began.
C15_GuardUsesSessionStart ==
    hist.last_outcome # "none" =>
        (state.start_time # None /\ state.is_streaming)

\* The `if` of a stop_record command is run while recording.
StopRecordStep ==
    pc = "if_stop_stream" /\ command = "stop_record" /\ state.is_recording

StopRecordKeeps == ~state'.is_recording /\ state'.recording = state.recording

FrozenWhileIdle ==
    (~state.is_recording /\ ~state'.is_recording)
        => state'.recording = state.recording

\* C16: stop_recording ends the recording and leaves the recording list as it
\* is; and no step that begins and ends with recording inactive (a
\* notification, any part of start_stream or stop_stream, save_record, any
\* other command) changes the list: it changes again only at start_recording.
C16_FrozenAfterStop ==
    /\ [][StopRecordStep => StopRecordKeeps]_vars
    /\ [][FrozenWhileIdle]_vars

\* C16 witness: a recording of one packet was stopped; a further packet has
\* since been appended to the capture list only.
C16_Witness ==
    /\ ~state.is_recording
    /\ hist.rec_mark = 0
    /\ Len(state.recording) = SamplesPerPacket
    /\ Len(state.audio_samples) = 2 * SamplesPerPacket
    /\ hist.last_outcome = "appended"

\* The `if` of a start_record or stop_record command is run in this step.
RecordStep ==
    \/ pc = "if_start_record" /\ command = "start_record"
    \/ pc = "if_stop_stream" /\ command = "stop_record"

\* It acts on its own precondition only, whatever is_streaming is, and leaves
\* the stream as it is.
RecordKeepsStream ==
    /\ state'.is_recording =
          IF Pre(command, state) THEN command = "start_record"
          ELSE state.is_recording
    /\ state'.is_streaming = state.is_streaming
    /\ state'.start_time = state.start_time
    /\ state'.audio_samples = state.audio_samples
    /\ subscribed' = subscribed
    /\ device_streaming' = device_streaming

\* main() takes a step of start_stream or stop_stream (the `if` of the
\* command, or the return of one of their GATT operations).
StreamStep ==
    /\ pc' # pc
    /\ \/ pc \in {"start_notify", "write_start", "write_stop", "stop_notify"}
       \/ pc = "if_start_stream" /\ command = "start_stream"
       \/ pc = "if_stop_stream" /\ command = "stop_stream"
       \/ pc = "if_exit" /\ command = "exit"

StreamKeepsRecording ==
    /\ state'.is_recording = state.is_recording
    /\ state'.recording = state.recording

\* C17: start_record and stop_record act on is_recording alone, whether or
\* not the stream is active, and leave is_streaming, start_time, the capture
\* list and the subscription as they are; start_stream and stop_stream (the
\* forced stop of exit included) leave is_recording and the recording list as
\* they are.
C17_FlagsIndependent ==
    /\ [][RecordStep => RecordKeepsStream]_vars
    /\ [][StreamStep => StreamKeepsRecording]_vars

\* C17 witness: a recording begun with the capture list empty has taken the
\* two accepted packets of the stream, was stopped while the stream runs, and
\* save_record has written exactly its 242 samples.
C17_Witness ==
    /\ pc = "if_exit"
    /\ command = "save_record"
    /\ state.is_streaming
    /\ ~state.is_recording
    /\ hist.rec_mark = 0
    /\ hist.cap_due = 2
    /\ Len(state.recording) = 242
    /\ HoldsExactly(wav_files[UserFile], state.audio_samples)

\* The command loop has ended and so has the program: by the break of exit
\* and the lines after the loop, or by an exception raised in stop_stream.
LoopOver ==
    \/ pc \in {"finished_empty", "finished"}
    \/ pc = "crashed" /\ hist.stop_failed

\* C18 (as claimed): once the loop has ended, recorded_audio.wav has been
\* written if and only if the capture list is not empty, it then holds the
\* whole capture list, and with an empty capture list the run has ended
\* without error.
C18_ExportIffCaptured ==
    LoopOver =>
        /\ (wav_files[ExportFile] # None) = (state.audio_samples # <<>>)
        /\ state.audio_samples # <<>> =>
               HoldsExactly(wav_files[ExportFile], state.audio_samples)
        /\ state.audio_samples = <<>> => pc = "finished_empty"

\* C19: the recording list is a contiguous run of the capture list, the one
\* that begins where the capture list ended at the latest start_recording; it
\* is never longer than the capture list, and while recording is active it
\* reaches to the end of the capture list.
C19_RecordingIsWindow ==
    /\ Len(state.recording) <= Len(state.audio_samples)
    /\ \E i \in {hist.rec_mark} :
          /\ i + Len(state.recording) <= Len(state.audio_samples)
          /\ state.recording =
                SubSeq(state.audio_samples, i + 1, i + Len(state.recording))
          /\ state.is_recording =>
                i + Len(state.recording) = Len(state.audio_samples)

\* C19 witness: the recording list is the second of two packets in the
\* capture list (a window that does not begin at its start), recording active.
C19_Witness ==
    /\ state.is_recording
    /\ hist.rec_mark = SamplesPerPacket
    /\ Len(state.recording) = SamplesPerPacket
    /\ Len(state.audio_samples) = 2 * SamplesPerPacket
    /\ SubSeq(state.audio_samples, 1, SamplesPerPacket) # state.recording

====
